---- MODULE Spec2Model ----
(***************************************************************************)
(* RunningAheadMembers (src/runningaheadmembers.py): the membership        *)
(* records of a RunningAHEAD export are grouped by (lname, fname, dob),    *)
(* each group is sorted by (expiration, join), overlaps between a record   *)
(* and its predecessor are repaired or the record is tossed, and two       *)
(* generators (membership_iter, name_iter) expose the result.              *)
(*                                                                         *)
(* Objects live on two heaps indexed by the row number of the input:       *)
(* rec[r] is the 'thisrec' dict built for row r, fullrec[r] is the         *)
(* 'membership' dict the csv reader produced for it (thisrec['fullrec']).  *)
(* names maps an identity key to a list of such references.                *)
(*                                                                         *)
(* An ascii date 'YYYY-MM-DD' is the tuple <<y, m, d>> of its zero-padded  *)
(* fields; strings are compared lexically, field by field.  A datetime is  *)
(* a record [year, month, day]; datetimes are compared as calendar dates.  *)
(***************************************************************************)
EXTENDS Integers, Sequences, FiniteSets, TLC

\* ------------------------------------------------------------- bounds
\* number of rows of the member file
MaxRecs == 3
\* number of generator calls a client makes on the reconcilers
MaxIters == 2
\* number of reconcilers: each one after the first is fed the full view of the one before
MaxPasses == 2

\* ------------------------------------------------------------- input alphabet
Years == {2020, 2021}
MonthDays == {<<1, 1>>, <<7, 1>>}
AscDates == {<<y, md[1], md[2]>> : y \in Years, md \in MonthDays}
FamilyNames == {"Doe"}
GivenNames == {"Jane"}
DOBs == {"1970-01-01", "1980-02-02"}

\* the row of the file at line r, as csv.DictReader hands it over
Rows(r) ==
  [MemberID : {r}, FamilyName : FamilyNames, GivenName : GivenNames, DOB : DOBs,
   JoinDate : AscDates, ExpirationDate : AscDates]

MemberFiles ==
  UNION {{f \in [1..n -> UNION {Rows(r) : r \in 1..n}] :
            \A r \in 1..n : f[r] \in Rows(r)} : n \in 0..MaxRecs}

\* an expiration that strptime refuses: month 13
BadDate == <<2020, 13, 1>>

\* the rows of a file of one member, some with an expiration that does not parse
OvrRows(r) ==
  [MemberID : {r}, FamilyName : FamilyNames, GivenName : GivenNames, DOB : {"1970-01-01"},
   JoinDate : AscDates, ExpirationDate : AscDates \cup {BadDate}]

OvrMemberFiles ==
  UNION {{f \in [1..n -> UNION {OvrRows(r) : r \in 1..n}] :
            \A r \in 1..n : f[r] \in OvrRows(r)} : n \in 0..MaxRecs}

VARIABLES
  memberfile,  \* the rows of the input, in file order
  pc,          \* position in __init__: "read", "names", "scan", "done"
  nread,       \* rows consumed by the csv reader so far
  names,       \* self.names: identity key -> list of references
  rec,         \* heap of thisrec dicts
  fullrec,     \* heap of membership dicts (thisrec['fullrec'])
  keyorder,    \* iteration order of the dict self.names
  g,           \* position of 'thisname' in keyorder (1-based)
  i,           \* loop index i of the scan (Python index, 0-based)
  toss,        \* the list toss of the group being scanned
  gen,         \* frame of the generator being iterated
  yielded,     \* what the generator has yielded so far
  last,        \* the generator call before this one and what it yielded
  iters,       \* generator calls made so far
  pass,        \* which reconciler this is: 1 for the first
  source,      \* the member file of the reconciler before this one
  overlapfile, \* whether the constructor was given an overlapfile
  ovrlp,       \* the debug file _OVRLP: its state, its header, the rows written after it
  cmp          \* the pairs <<i-1 record, i record>> the scan of this group has examined

vars ==
  <<memberfile, pc, nread, names, rec, fullrec, keyorder, g, i, toss,
    gen, yielded, last, iters, pass, source, overlapfile, ovrlp, cmp>>

\* ------------------------------------------------------------- dates
\* lexical order of two 'YYYY-MM-DD' strings
AscLT(a, b) ==
  \/ a[1] < b[1]
  \/ a[1] = b[1] /\ a[2] < b[2]
  \/ a[1] = b[1] /\ a[2] = b[2] /\ a[3] < b[3]

AscLE(a, b) == a = b \/ AscLT(a, b)

\* whether ymd.asc2dt accepts the string: strptime raises ValueError otherwise
Parsable(asc) == asc[2] \in 1..12 /\ asc[3] \in 1..31

\* ymd.asc2dt: parse '%Y-%m-%d'
asc2dt(asc) == [year |-> asc[1], month |-> asc[2], day |-> asc[3]]

\* ymd.dt2asc: format '%Y-%m-%d'
dt2asc(dt) == <<dt.year, dt.month, dt.day>>

\* days of a datetime on a 12 x 31 calendar grid: order-isomorphic to datetime order
DtOrd(dt) == ((dt.year * 12) + (dt.month - 1)) * 31 + (dt.day - 1)

DtGT(a, b) == DtOrd(a) > DtOrd(b)

\* a boundary that forgets the +1: January 1 of the year of the last expiration
Jan1SameYear(lastexp_dt) == [year |-> lastexp_dt.year, month |-> 1, day |-> 1]

\* datetime(lastexp_dt.year+1,1,1)
Jan1After(lastexp_dt) == [year |-> lastexp_dt.year + 1, month |-> 1, day |-> 1]

\* ------------------------------------------------------------- lists
\* Python list[idx] for a 0-based idx; a negative idx counts from the end
At(list, idx) == IF idx < 0 THEN list[Len(list) + idx + 1] ELSE list[idx + 1]

\* list.pop(idx) for a 0-based idx: the list without that element
Pop(list, idx) ==
  [k \in 1..(Len(list) - 1) |-> IF k <= idx THEN list[k] ELSE list[k + 1]]

\* a reverse that leaves the list as it is
NotReversed(list) == list

\* list.reverse()
Reverse(list) == [k \in 1..Len(list) |-> list[Len(list) + 1 - k]]

Range(list) == {list[k] : k \in 1..Len(list)}

Perms(S) ==
  {p \in [1..Cardinality(S) -> S] : \A a, b \in 1..Cardinality(S) : p[a] = p[b] => a = b}

\* ------------------------------------------------------------- grouping
\* a key that leaves the date of birth out
NameKeyNoDob(membership) == <<membership.FamilyName, membership.GivenName>>

\* thisname = (lname,fname,dob)
NameKey(membership) ==
  <<membership.FamilyName, membership.GivenName, membership.DOB>>

\* thisrec, with fullrec the reference r to the membership dict
ThisRec(membership, r) ==
  [MemberID |-> membership.MemberID,
   name |-> <<membership.FamilyName, membership.GivenName>>,
   join |-> membership.JoinDate,
   expiration |-> membership.ExpirationDate,
   dob |-> membership.DOB,
   tossed |-> "",
   fullrec |-> r]

\* self.names[thisname].append(thisrec), creating the list when the key is new
Appended(nm, thisname, r) ==
  IF thisname \in DOMAIN nm
    THEN [nm EXCEPT ![thisname] = Append(@, r)]
    ELSE (thisname :> <<r>>) @@ nm

\* ------------------------------------------------------------- sort
\* a sort key of the join date alone
KeyLTJoinOnly(a, b) == AscLT(rec[a].join, rec[b].join)

\* a sort key with its two fields swapped: (join, expiration)
KeyLTJoinFirst(a, b) ==
  \/ AscLT(rec[a].join, rec[b].join)
  \/ rec[a].join = rec[b].join /\ AscLT(rec[a].expiration, rec[b].expiration)

\* key=lambda k: (k['expiration'],k['join']), compared as a tuple of strings
KeyLT(a, b) ==
  \/ AscLT(rec[a].expiration, rec[b].expiration)
  \/ rec[a].expiration = rec[b].expiration /\ AscLT(rec[a].join, rec[b].join)

\* insert r after every element whose key is not greater: keeps equal keys in order
RECURSIVE Insert(_, _)
Insert(list, r) ==
  IF list = <<>> THEN <<r>>
  ELSE IF KeyLT(r, list[Len(list)])
    THEN Append(Insert(SubSeq(list, 1, Len(list) - 1), r), list[Len(list)])
    ELSE Append(list, r)

\* sorted(list, key=...): stable
RECURSIVE Sorted(_)
Sorted(list) ==
  IF list = <<>> THEN <<>>
  ELSE Insert(Sorted(SubSeq(list, 1, Len(list) - 1)), list[Len(list)])

\* ------------------------------------------------------------- scan
\* self.names[thisname][i]['join'] <= self.names[thisname][i-1]['expiration']
Overlaps(cur, prev) == AscLE(rec[cur].join, rec[prev].expiration)

\* jan1_dt, from the record before position i
Jan1Dt(prev) == Jan1After(asc2dt(rec[prev].expiration))

\* a toss test that also fires when jan1_dt equals thisexp_dt
SubsumedOrEqual(cur, prev) == ~DtGT(asc2dt(rec[cur].expiration), Jan1Dt(prev))

\* a toss test against the last expiration itself instead of jan1_dt
SubsumedByLastExp(cur, prev) ==
  DtGT(asc2dt(rec[prev].expiration), asc2dt(rec[cur].expiration))

\* jan1_dt > thisexp_dt
Subsumed(cur, prev) == DtGT(Jan1Dt(prev), asc2dt(rec[cur].expiration))

\* self.names[thisname][i]['tossed'] = 'Y'
MarkedTossed(heap, cur) == [heap EXCEPT ![cur].tossed = "Y"]

\* self.names[thisname][i]['join'] = jan1_asc
JoinUpdated(heap, cur, jan1_asc) == [heap EXCEPT ![cur].join = jan1_asc]

\* a repair that leaves the membership dict alone
FullrecNotUpdated(heap, cur, jan1_asc) == heap

\* self.names[thisname][i]['fullrec']['JoinDate'] = jan1_asc
FullrecUpdated(heap, cur, jan1_asc) == [heap EXCEPT ![cur].JoinDate = jan1_asc]

\* a cleanup that pops nothing
PopNone(list, idxs) == list

\* toss.reverse(); for i in toss: self.names[thisname].pop(i)
RECURSIVE PopAll(_, _)
PopAll(list, idxs) ==
  IF idxs = <<>> THEN list
  ELSE PopAll(Pop(list, idxs[1]), SubSeq(idxs, 2, Len(idxs)))

\* every pop(i) of the cleanup finds its index in the list: IndexError otherwise
RECURSIVE PopsInRange(_, _)
PopsInRange(list, idxs) ==
  IF idxs = <<>> THEN TRUE
  ELSE idxs[1] < Len(list) /\ PopsInRange(Pop(list, idxs[1]), SubSeq(idxs, 2, Len(idxs)))

\* a scan that starts at the first record of the list: range(len(...))
ScanFromZero == 1 - 1

\* range(1,len(self.names[thisname])): the first index of the scan
ScanStart == 1

\* the nearest record before index idx that is not marked tossed
PrevSurvivor(list, idx) ==
  LET live == {k \in 0..(idx - 1) : rec[At(list, k)].tossed # "Y"}
  IN At(list, CHOOSE k \in live : \A m \in live : m <= k)

\* self.names[thisname][i-1]
PrevOf(list, idx) == At(list, idx - 1)

\* the row csv.DictWriter writes for a thisrec: the fields of the header, '' for a
\* key the dict does not have, every other key ignored
OvrRow(thisrec) ==
  [MemberID |-> thisrec.MemberID, name |-> thisrec.name, dob |-> thisrec.dob,
   renewal |-> "", join |-> thisrec.join, expiration |-> thisrec.expiration,
   tossed |-> thisrec.tossed]

\* rows that show the record at i alone
OverlapRowsCurOnly(heap, prev, cur) == <<OvrRow(heap[cur])>>

\* OVRLP.writerow(self.names[thisname][i-1]); OVRLP.writerow(self.names[thisname][i])
OverlapRows(heap, prev, cur) == <<OvrRow(heap[prev]), OvrRow(heap[cur])>>

NoFile == [state |-> "unopened", header |-> FALSE, rows |-> <<>>]

thisname == keyorder[g]

NoGen == [view |-> "none", g |-> 0, k |-> 0, done |-> FALSE]
NoLast == [view |-> "none", out |-> <<>>, complete |-> FALSE]

Init ==
  /\ memberfile \in MemberFiles
  /\ pc = "read"
  /\ nread = 0
  /\ names = <<>>
  /\ rec = <<>>
  /\ fullrec = <<>>
  /\ keyorder = <<>>
  /\ g = 0
  /\ i = 0
  /\ toss = <<>>
  /\ gen = NoGen
  /\ yielded = <<>>
  /\ last = NoLast
  /\ iters = 0
  /\ pass = 1
  /\ source = <<>>
  /\ overlapfile = FALSE
  /\ ovrlp = NoFile
  /\ cmp = <<>>

\* one pass of 'for membership in INCSV'
ReadRow ==
  /\ pc = "read"
  /\ nread < Len(memberfile)
  /\ LET r == nread + 1
         membership == memberfile[r]
     IN /\ fullrec' = Append(fullrec, membership)
        /\ rec' = Append(rec, ThisRec(membership, r))
        /\ names' = Appended(names, NameKey(membership), r)
        /\ nread' = r
  /\ UNCHANGED <<memberfile, pc, keyorder, g, i, toss, gen, yielded, last, iters, pass, source, overlapfile, ovrlp, cmp>>

\* the reader is exhausted; 'for thisname in self.names' fixes the order of the keys
EndRead ==
  /\ pc = "read"
  /\ nread = Len(memberfile)
  /\ keyorder' \in Perms(DOMAIN names)
  /\ g' = 1
  /\ pc' = "names"
  /\ ovrlp' = IF overlapfile THEN [state |-> "open", header |-> TRUE, rows |-> <<>>] ELSE ovrlp
  /\ UNCHANGED <<memberfile, nread, names, rec, fullrec, i, toss, gen, yielded, last, iters, pass, source, overlapfile, cmp>>

\* the next thisname: sort its list, toss = []
SortGroup ==
  /\ pc = "names"
  /\ g <= Len(keyorder)
  /\ names' = [names EXCEPT ![thisname] = Sorted(@)]
  /\ toss' = <<>>
  /\ i' = ScanStart
  /\ cmp' = <<>>
  /\ pc' = "scan"
  /\ UNCHANGED <<memberfile, nread, rec, fullrec, keyorder, g, gen, yielded, last, iters, pass, source, overlapfile, ovrlp>>

\* the body of 'for i in range(1,len(self.names[thisname]))' at index i; a date that
\* does not parse raises ValueError out of __init__ before anything is changed
ScanStep ==
  /\ pc = "scan"
  /\ i < Len(names[thisname])
  /\ LET cur == At(names[thisname], i)
         prev == PrevOf(names[thisname], i)
     IN /\ cmp' = Append(cmp, <<prev, cur>>)
        /\ IF ~Overlaps(cur, prev)
             THEN /\ i' = i + 1
                  /\ UNCHANGED <<pc, toss, rec, fullrec, ovrlp>>
             ELSE IF ~Parsable(rec[prev].expiration) \/ ~Parsable(rec[cur].expiration)
               THEN /\ pc' = "raised"
                    /\ UNCHANGED <<i, toss, rec, fullrec, ovrlp>>
               ELSE LET jan1_asc == dt2asc(Jan1Dt(prev))
                        isTossed == Subsumed(cur, prev)
                        marked == IF isTossed THEN MarkedTossed(rec, cur) ELSE rec
                    IN /\ toss' = IF isTossed THEN Append(toss, i) ELSE toss
                       /\ ovrlp' = IF overlapfile
                                     THEN [ovrlp EXCEPT !.rows = @ \o OverlapRows(marked, prev, cur)]
                                     ELSE ovrlp
                       /\ rec' = JoinUpdated(marked, cur, jan1_asc)
                       /\ fullrec' = FullrecUpdated(fullrec, rec[cur].fullrec, jan1_asc)
                       /\ i' = i + 1
                       /\ pc' = pc
  /\ UNCHANGED <<memberfile, nread, names, keyorder, g, gen, yielded, last, iters, pass, source, overlapfile>>

\* the scan is over: pop the tossed records, highest index first; a pop whose index
\* is not in the list raises IndexError out of __init__
Cleanup ==
  /\ pc = "scan"
  /\ i >= Len(names[thisname])
  /\ IF PopsInRange(names[thisname], Reverse(toss))
       THEN /\ names' = [names EXCEPT ![thisname] = PopAll(@, Reverse(toss))]
            /\ g' = g + 1
            /\ pc' = "names"
       ELSE /\ pc' = "raised"
            /\ UNCHANGED <<names, g>>
  /\ UNCHANGED <<memberfile, nread, rec, fullrec, keyorder, i, toss, gen, yielded, last, iters, pass, source, overlapfile, ovrlp, cmp>>

\* every name is processed: __init__ returns
Finish ==
  /\ pc = "names"
  /\ g > Len(keyorder)
  /\ pc' = "done"
  /\ ovrlp' = IF overlapfile THEN [ovrlp EXCEPT !.state = "closed"] ELSE ovrlp
  /\ UNCHANGED <<memberfile, nread, names, rec, fullrec, keyorder, g, i, toss,
                 gen, yielded, last, iters, pass, source, overlapfile, cmp>>

\* ------------------------------------------------------------- generators
\* the position of the next 'thismembership' at or after (gg, kk), or <<>> when
\* 'for thisname in self.names' is exhausted
RECURSIVE NextPos(_, _)
NextPos(gg, kk) ==
  IF gg > Len(keyorder) THEN <<>>
  ELSE IF kk <= Len(names[keyorder[gg]]) THEN <<gg, kk>>
  ELSE NextPos(gg + 1, 1)

\* the payload of the first record of the list instead of the last
FirstRec(list) == rec[list[1]].fullrec

\* self.names[thisname][-1]['fullrec']
LatestRec(list) == rec[list[Len(list)]].fullrec

\* self.names[thisname][0]['join']
EarliestJoin(list) == rec[list[1]].join

\* thismembership['JoinDate'] = self.names[thisname][0]['join']
NameIterUpdated(heap, list) ==
  [heap EXCEPT ![LatestRec(list)].JoinDate = EarliestJoin(list)]

\* what a consumer sees when the generator yields the dict r out of group key
Yield(heap, r, key) == [ref |-> r, rec |-> heap[r], from |-> key]

\* a generator kept from the call before and resumed where it stopped
ResumedGen(view) ==
  IF gen.view = view THEN [gen EXCEPT !.done = FALSE]
  ELSE [view |-> view, g |-> 1, k |-> 1, done |-> FALSE]

\* the frame of a generator that has not run yet: both loops start at the first element
NewGen(view) == [view |-> view, g |-> 1, k |-> 1, done |-> FALSE]

\* membership_iter() or name_iter() is called: the generator of the call before is dropped
CallIter ==
  /\ pc = "done"
  /\ iters < MaxIters
  /\ iters' = iters + 1
  /\ last' = IF gen.view = "none" THEN last
             ELSE [view |-> gen.view, out |-> yielded, complete |-> gen.done]
  /\ \E view \in {"membership", "name"} : gen' = NewGen(view)
  /\ yielded' = <<>>
  /\ UNCHANGED <<memberfile, pc, nread, names, rec, fullrec, keyorder, g, i, toss, pass, source, overlapfile, ovrlp, cmp>>

\* next() on the membership_iter generator
MembershipNext ==
  /\ gen.view = "membership"
  /\ ~gen.done
  /\ LET pos == NextPos(gen.g, gen.k)
     IN IF pos = <<>>
          THEN /\ gen' = [gen EXCEPT !.done = TRUE]
               /\ yielded' = yielded
          ELSE LET key == keyorder[pos[1]]
                   thismembership == rec[names[key][pos[2]]]
               IN /\ yielded' = Append(yielded, Yield(fullrec, thismembership.fullrec, key))
                  /\ gen' = [gen EXCEPT !.g = pos[1], !.k = pos[2] + 1]
  /\ UNCHANGED <<memberfile, pc, nread, names, rec, fullrec, keyorder, g, i, toss,
                 last, iters, pass, source, overlapfile, ovrlp, cmp>>

\* next() on the name_iter generator
NameNext ==
  /\ gen.view = "name"
  /\ ~gen.done
  /\ IF gen.g > Len(keyorder)
       THEN /\ gen' = [gen EXCEPT !.done = TRUE]
            /\ UNCHANGED <<fullrec, yielded>>
       ELSE LET key == keyorder[gen.g]
                list == names[key]
            IN IF list = <<>>
                 \* [-1] of an empty list: IndexError ends the generator
                 THEN /\ gen' = [gen EXCEPT !.view = "IndexError", !.done = TRUE]
                      /\ UNCHANGED <<fullrec, yielded>>
                 ELSE /\ fullrec' = NameIterUpdated(fullrec, list)
                      /\ yielded' = Append(yielded, Yield(fullrec', LatestRec(list), key))
                      /\ gen' = [gen EXCEPT !.g = @ + 1]
  /\ UNCHANGED <<memberfile, pc, nread, names, rec, keyorder, g, i, toss, last, iters, pass, source, overlapfile, ovrlp, cmp>>

\* a new RunningAheadMembers is built from the records the full view of this one
\* yielded, read before name_iter was ever called on it
Refeed ==
  /\ pc = "done"
  /\ pass < MaxPasses
  /\ gen.view = "membership"
  /\ gen.done
  /\ last.view = "none"
  /\ memberfile' = [k \in 1..Len(yielded) |-> yielded[k].rec]
  /\ source' = memberfile
  /\ pass' = pass + 1
  /\ pc' = "read"
  /\ nread' = 0
  /\ names' = <<>>
  /\ rec' = <<>>
  /\ fullrec' = <<>>
  /\ keyorder' = <<>>
  /\ g' = 0
  /\ i' = 0
  /\ toss' = <<>>
  /\ gen' = NoGen
  /\ yielded' = <<>>
  /\ last' = NoLast
  /\ ovrlp' = NoFile
  /\ cmp' = <<>>
  /\ UNCHANGED <<iters, overlapfile>>

Next ==
  \/ ReadRow
  \/ EndRead
  \/ SortGroup
  \/ ScanStep
  \/ Cleanup
  \/ Finish
  \/ CallIter
  \/ MembershipNext
  \/ NameNext
  \/ Refeed

Spec == Init /\ [][Next]_vars

\* the constructor is given an overlapfile, and a member file of one member in which an
\* expiration may not parse
InitOvr ==
  /\ memberfile \in OvrMemberFiles
  /\ pc = "read"
  /\ nread = 0
  /\ names = <<>>
  /\ rec = <<>>
  /\ fullrec = <<>>
  /\ keyorder = <<>>
  /\ g = 0
  /\ i = 0
  /\ toss = <<>>
  /\ gen = NoGen
  /\ yielded = <<>>
  /\ last = NoLast
  /\ iters = 0
  /\ pass = 1
  /\ source = <<>>
  /\ overlapfile = TRUE
  /\ ovrlp = NoFile
  /\ cmp = <<>>

SpecOvr == InitOvr /\ [][Next]_vars

\* ------------------------------------------------------------- properties
\* The properties read the input rows (memberfile) and compare dates as calendar
\* dates, independently of the operators of the reconciler.

\* calendar order of an ascii date (for a month or day out of the calendar, the
\* order of the zero-padded fields)
DateOrd(asc) == ((asc[1] * 100) + asc[2]) * 100 + asc[3]

RowRefs == 1..Len(memberfile)

InputKey(r) == <<memberfile[r].FamilyName, memberfile[r].GivenName, memberfile[r].DOB>>

\* row a comes before row b in the (expiration, join) order of their common identity,
\* rows of equal dates in file order
InputBefore(a, b) ==
  /\ a # b
  /\ InputKey(a) = InputKey(b)
  /\ LET ea == DateOrd(memberfile[a].ExpirationDate)
         eb == DateOrd(memberfile[b].ExpirationDate)
         ja == DateOrd(memberfile[a].JoinDate)
         jb == DateOrd(memberfile[b].JoinDate)
     IN \/ ea < eb
        \/ ea = eb /\ ja < jb
        \/ ea = eb /\ ja = jb /\ a < b

Preds(r) == {q \in RowRefs : InputBefore(q, r)}

\* the row right before r in the order of its identity
Pred(r) == CHOOSE q \in Preds(r) : \A q2 \in Preds(r) \ {q} : InputBefore(q2, q)

\* January 1 of the year after the expiration of the row before r
Boundary(r) == <<memberfile[Pred(r)].ExpirationDate[1] + 1, 1, 1>>

OverlapsPred(r) ==
  /\ Preds(r) # {}
  /\ DateOrd(memberfile[r].JoinDate) <= DateOrd(memberfile[Pred(r)].ExpirationDate)

IsTossed(r) == rec[r].tossed = "Y"

\* name_iter was never called on this reconciler
FreshView == gen.view \in {"none", "membership"} /\ last.view = "none"

\* two input intervals of one identity share a day
InputIntersect(a, b) ==
  /\ InputKey(a) = InputKey(b)
  /\ DateOrd(memberfile[a].JoinDate) <= DateOrd(memberfile[b].ExpirationDate)
  /\ DateOrd(memberfile[b].JoinDate) <= DateOrd(memberfile[a].ExpirationDate)

\* C1: after construction, every adjacent pair (prev, cur) of survivors of a group
\* satisfies cur.join > prev.expiration
C1_NoOverlapAfterConstruction ==
  pc = "done" =>
    \A key \in DOMAIN names : \A k \in 2..Len(names[key]) :
      DateOrd(rec[names[key][k]].join) > DateOrd(rec[names[key][k - 1]].expiration)

\* a group of three mutually overlapping input rows, with two survivors, one repaired
C1_Witness ==
  /\ pc = "done"
  /\ pass = 1
  /\ \E key \in DOMAIN names :
       /\ Len(names[key]) >= 2
       /\ Cardinality({r \in RowRefs : InputKey(r) = key}) >= 3
       /\ \A a, b \in {r \in RowRefs : InputKey(r) = key} : InputIntersect(a, b)
       /\ \E k \in 1..Len(names[key]) :
            rec[names[key][k]].join # memberfile[names[key][k]].JoinDate

\* the scanned position p (Python index) of the group being scanned is an overlap
ScannedOverlap(p) ==
  LET cur == At(names[thisname], p)
      prev == At(names[thisname], p - 1)
  IN DateOrd(memberfile[cur].JoinDate) <= DateOrd(rec[prev].expiration)

\* January 1 of the year after the expiration of the record before position p
ScannedBoundary(p) == <<rec[At(names[thisname], p - 1)].expiration[1] + 1, 1, 1>>

\* C2: during the scan, the record at position i >= 1 is tossed iff it overlaps the
\* record at position i-1 and January 1 of the year after that record's expiration is
\* strictly later than its own expiration
C2_TossedIffSubsumed ==
  pc = "scan" =>
    \A p \in 1..(i - 1) :
      LET cur == At(names[thisname], p)
      IN /\ IsTossed(cur) <=>
              /\ ScannedOverlap(p)
              /\ DateOrd(ScannedBoundary(p)) > DateOrd(rec[cur].expiration)
         /\ IsTossed(cur) <=> p \in Range(toss)

\* a scan that tossed one record and kept one whose expiration is the boundary itself
C2_Witness ==
  /\ pc = "scan"
  /\ \E p, q \in 1..(i - 1) :
       /\ IsTossed(At(names[thisname], p))
       /\ ScannedOverlap(q)
       /\ ScannedBoundary(q) = rec[At(names[thisname], q)].expiration
       /\ ~IsTossed(At(names[thisname], q))

\* C3: a record that overlaps its predecessor and is not tossed gets the join date
\* January 1 of the year after the predecessor's expiration, in the record and in the
\* JoinDate of its payload, which the full view reports; a record that does not
\* overlap its predecessor keeps its input join date
C3_RepairSetsJoinToBoundary ==
  (pc = "done" /\ FreshView) =>
    /\ \A r \in RowRefs :
         /\ (OverlapsPred(r) /\ ~IsTossed(r)) =>
              (rec[r].join = Boundary(r) /\ fullrec[r].JoinDate = Boundary(r))
         /\ ~OverlapsPred(r) =>
              /\ rec[r].join = memberfile[r].JoinDate
              /\ fullrec[r].JoinDate = memberfile[r].JoinDate
    /\ \A k \in 1..Len(yielded) :
         /\ (OverlapsPred(yielded[k].ref) /\ ~IsTossed(yielded[k].ref)) =>
              yielded[k].rec.JoinDate = Boundary(yielded[k].ref)
         /\ ~OverlapsPred(yielded[k].ref) =>
              yielded[k].rec.JoinDate = memberfile[yielded[k].ref].JoinDate

\* the full view has yielded a repaired record and one that needed no repair
C3_Witness ==
  /\ pc = "done"
  /\ FreshView
  /\ gen.done
  /\ \E k, m \in 1..Len(yielded) :
       /\ OverlapsPred(yielded[k].ref)
       /\ yielded[k].rec.JoinDate # memberfile[yielded[k].ref].JoinDate
       /\ Preds(yielded[m].ref) # {}
       /\ ~OverlapsPred(yielded[m].ref)

\* a yielded payload is the input row but for its JoinDate
PayloadOf(e) == e.rec = [memberfile[e.ref] EXCEPT !.JoinDate = e.rec.JoinDate]

\* C4: membership_iter yields the payload of every record that was not tossed exactly
\* once and never that of a tossed record; name_iter never yields a tossed record
C4_ViewsYieldSurvivorsOnly ==
  pc = "done" =>
    /\ \A k \in 1..Len(yielded) : ~IsTossed(yielded[k].ref) /\ PayloadOf(yielded[k])
    /\ (gen.view = "membership" /\ gen.done) =>
         /\ {yielded[k].ref : k \in 1..Len(yielded)} = {r \in RowRefs : ~IsTossed(r)}
         /\ \A k, m \in 1..Len(yielded) : yielded[k].ref = yielded[m].ref => k = m

\* a complete full view of a reconciler that tossed a record and kept two
C4_Witness ==
  /\ pc = "done"
  /\ gen.view = "membership"
  /\ gen.done
  /\ Len(yielded) >= 2
  /\ \E r \in RowRefs : IsTossed(r)

\* the surviving records of the group of key
Survivors(key) == {names[key][p] : p \in 1..Len(names[key])}

\* C5: the JoinDate of the record name_iter yields for a group is the minimum join
\* date among the surviving records of that group
C5_LatestViewJoinIsMinimum ==
  (pc = "done" /\ gen.view = "name") =>
    \A k \in 1..Len(yielded) :
      /\ \E r \in Survivors(yielded[k].from) : yielded[k].rec.JoinDate = rec[r].join
      /\ \A r \in Survivors(yielded[k].from) :
           DateOrd(yielded[k].rec.JoinDate) <= DateOrd(rec[r].join)

\* C6: name_iter yields exactly one record per identity key of the input, and its
\* fields other than JoinDate are those of the last survivor of the group in sorted
\* order, the one with the latest expiration
C6_LatestViewOnePerKey ==
  (pc = "done" /\ gen.view = "name") =>
    /\ \A k \in 1..Len(yielded) :
         LET e == yielded[k]
         IN /\ InputKey(e.ref) = e.from
            /\ ~IsTossed(e.ref)
            /\ PayloadOf(e)
            /\ \A q \in RowRefs :
                 (InputKey(q) = e.from /\ ~IsTossed(q)) =>
                   /\ ~InputBefore(e.ref, q)
                   /\ DateOrd(memberfile[q].ExpirationDate)
                        <= DateOrd(memberfile[e.ref].ExpirationDate)
    /\ \A k, m \in 1..Len(yielded) : yielded[k].from = yielded[m].from => k = m
    /\ gen.done => {yielded[k].from : k \in 1..Len(yielded)} = {InputKey(r) : r \in RowRefs}

\* a complete latest view over two identities, one of them with two survivors
C6_Witness ==
  /\ pc = "done"
  /\ gen.view = "name"
  /\ gen.done
  /\ Len(yielded) = 2
  /\ \E k \in 1..Len(yielded) : Len(names[yielded[k].from]) = 2

\* C7: iterating a view never changes the reconciled state: the groups, their
\* records and every payload field stay what construction left
C7_ViewsNeverMutate ==
  [][(pc = "done" /\ pc' = "done") =>
       (names' = names /\ rec' = rec /\ fullrec' = fullrec)]_vars

\* C8: a complete iteration of a view right after a complete iteration of the same
\* view yields the same sequence, in content and in order
C8_Restartable ==
  (pc = "done" /\ gen.done /\ last.complete /\ last.view = gen.view) =>
    yielded = last.out

\* name_iter was iterated twice in a row over two identities and rewrote a JoinDate
C8_Witness ==
  /\ pc = "done"
  /\ gen.done
  /\ gen.view = "name"
  /\ last.complete
  /\ last.view = "name"
  /\ Len(last.out) = 2
  /\ \E k \in 1..Len(yielded) : yielded[k].rec.JoinDate # rec[yielded[k].ref].join

\* C9: a reconciler fed the full view of a freshly constructed reconciler tosses no
\* record and changes no join date
C9_Idempotent ==
  pass >= 2 =>
    /\ toss = <<>>
    /\ \A r \in 1..nread :
         /\ ~IsTossed(r)
         /\ rec[r].join = memberfile[r].JoinDate
         /\ FreshView => fullrec[r].JoinDate = memberfile[r].JoinDate

\* the second reconciler is done with a group of two records, one of which the first
\* reconciler repaired, after the first reconciler tossed a record
C9_Witness ==
  /\ pass = 2
  /\ pc = "done"
  /\ Len(source) > Len(memberfile)
  /\ \E key \in DOMAIN names :
       /\ Len(names[key]) >= 2
       /\ \E r \in Survivors(key) : \E q \in 1..Len(source) :
            /\ source[q].MemberID = memberfile[r].MemberID
            /\ source[q].JoinDate # memberfile[r].JoinDate

\* where the reference r sits in self.names
Places(r) ==
  UNION {{<<key, p>> : p \in {q \in 1..Len(names[key]) : names[key][q] = r}} :
           key \in DOMAIN names}

\* C10: every record read sits in exactly one group, the one keyed by its own
\* (FamilyName, GivenName, DOB), until it is tossed; every yielded record carries the
\* key of the group it is yielded from; the scan compares records of one key only
C10_GroupedByOwnKey ==
  /\ \A r \in 1..nread :
       /\ Cardinality(Places(r)) <= 1
       /\ \A pl \in Places(r) : pl[1] = InputKey(r)
       /\ Places(r) = {} => IsTossed(r)
  /\ \A k \in 1..Len(yielded) :
       /\ yielded[k].from = InputKey(yielded[k].ref)
       /\ yielded[k].from =
            <<yielded[k].rec.FamilyName, yielded[k].rec.GivenName, yielded[k].rec.DOB>>
  /\ pc = "scan" => \A p \in 1..Len(names[thisname]) : InputKey(names[thisname][p]) = thisname

\* the full view of three rows of two identities, the scan of one having compared two
C10_Witness ==
  /\ pc = "done"
  /\ gen.view = "membership"
  /\ gen.done
  /\ Cardinality(DOMAIN names) = 2
  /\ Len(memberfile) = 3

\* ------------------------------------------------------------- overlap file
\* C11: with an overlapfile, the debug file is closed in every terminal state of
\* construction, whether __init__ returned or raised
C11_OverlapFileClosedOnEveryExit ==
  (overlapfile /\ pc \in {"done", "raised"}) => ovrlp.state = "closed"

\* the rows of the input whose scan found an overlap
Overlapped == {r \in RowRefs : OverlapsPred(r)}

\* the input row the k-th pair of rows of the debug file shows as the later record
PairCur(k) ==
  CHOOSE r \in RowRefs : memberfile[r].MemberID = ovrlp.rows[2 * k].MemberID

\* the debug file holds one pair of rows per overlap, in scan order: the earlier
\* record as the scan left it, then the later record with its tossed mark
PairsPerOverlap ==
  /\ ovrlp.header
  /\ Len(ovrlp.rows) = 2 * Cardinality(Overlapped)
  /\ \A k \in 1..Cardinality(Overlapped) :
       LET r == PairCur(k)
       IN /\ r \in Overlapped
          /\ ovrlp.rows[2 * k - 1] = OvrRow(rec[Pred(r)])
          /\ ovrlp.rows[2 * k].MemberID = memberfile[r].MemberID
          /\ ovrlp.rows[2 * k].expiration = memberfile[r].ExpirationDate
          /\ ovrlp.rows[2 * k].tossed = rec[r].tossed
  /\ \A k, m \in 1..Cardinality(Overlapped) :
       /\ PairCur(k) = PairCur(m) => k = m
       /\ (k < m /\ InputKey(PairCur(k)) = InputKey(PairCur(m))) =>
            InputBefore(PairCur(k), PairCur(m))

\* C12 as stated: every overlap emits two rows, prev then cur, tossed or repaired,
\* and the cur row shows the January 1 boundary as its join date
C12_CurRowShowsBoundary ==
  (overlapfile /\ pc = "done") =>
    /\ PairsPerOverlap
    /\ \A k \in 1..Cardinality(Overlapped) :
         ovrlp.rows[2 * k].join = Boundary(PairCur(k))

\* C12 as amended: every overlap emits two rows, prev then cur, tossed or repaired,
\* and the cur row is written before the join date is updated: it shows the input
\* join date
C12_CurRowShowsInputJoin ==
  (overlapfile /\ pc = "done") =>
    /\ PairsPerOverlap
    /\ \A k \in 1..Cardinality(Overlapped) :
         ovrlp.rows[2 * k].join = memberfile[PairCur(k)].JoinDate

\* a debug file of two overlaps, one tossed and one repaired to a new join date
C12_Witness ==
  /\ overlapfile
  /\ pc = "done"
  /\ Len(ovrlp.rows) = 4
  /\ \E k, m \in 1..2 :
       /\ ovrlp.rows[2 * k].tossed = "Y"
       /\ ovrlp.rows[2 * m].tossed = ""
       /\ ovrlp.rows[2 * m].join # rec[PairCur(m)].join

\* ------------------------------------------------------------- scan and cleanup
\* C13 as stated: a record marked tossed is never the prev of a later comparison
C13_TossedNeverPrev ==
  pc = "scan" => \A k \in 1..Len(cmp) : ~IsTossed(cmp[k][1])

\* C13 as amended: removal being deferred, the comparison of position k is always
\* with the record at position k-1, tossed or not; a tossed record is the prev of the
\* next position and takes part in no comparison after that one
C13_PrevIsPositionBefore ==
  pc = "scan" =>
    /\ \A k \in 1..Len(cmp) :
         /\ cmp[k][1] = At(names[thisname], k - 1)
         /\ cmp[k][2] = At(names[thisname], k)
    /\ \A k, m \in 1..Len(cmp) :
         (IsTossed(cmp[k][2]) /\ m > k /\ (cmp[k][2] = cmp[m][1] \/ cmp[k][2] = cmp[m][2]))
           => (m = k + 1 /\ cmp[m][1] = cmp[k][2])

\* a record was repaired against a tossed record
C13_Witness ==
  /\ pc = "scan"
  /\ \E k \in 1..Len(cmp) :
       /\ IsTossed(cmp[k][1])
       /\ ~IsTossed(cmp[k][2])
       /\ rec[cmp[k][2]].join # memberfile[cmp[k][2]].JoinDate

\* C14: no record leaves the list while its group is scanned; the cleanup removes
\* exactly the records marked tossed and keeps the others in their order
C14_DeferredRemoval ==
  [][pc = "scan" =>
       /\ pc' = "scan" => names' = names
       /\ pc' # "scan" =>
            /\ pc' = "names"
            /\ names' = [names EXCEPT ![thisname] = SelectSeq(@, LAMBDA r : ~IsTossed(r))]]_vars

\* a cleanup has popped two tossed records out of a group of three
C14_Witness ==
  /\ pc = "names"
  /\ g >= 2
  /\ Len(toss) = 2
  /\ Len(names[keyorder[g - 1]]) = 1

\* (expiration, join) of a before or equal to that of b, with the dates the records hold
RecordLE(a, b) ==
  \/ DateOrd(rec[a].expiration) < DateOrd(rec[b].expiration)
  \/ /\ rec[a].expiration = rec[b].expiration
     /\ DateOrd(rec[a].join) <= DateOrd(rec[b].join)

\* C15: after construction the survivors of each group are in ascending
\* (expiration, join) order of their repaired dates
C15_SurvivorsStaySorted ==
  pc = "done" =>
    \A key \in DOMAIN names : \A k \in 2..Len(names[key]) :
      RecordLE(names[key][k - 1], names[key][k])

\* two survivors, the later one with a repaired join date
C15_Witness ==
  /\ pc = "done"
  /\ \E key \in DOMAIN names :
       /\ Len(names[key]) = 2
       /\ rec[names[key][2]].join # memberfile[names[key][2]].JoinDate
       /\ \E r \in RowRefs : IsTossed(r) /\ InputKey(r) = key

\* C16: the first record of a group in sorted order is never tossed and keeps its
\* join date, so no group is ever empty and name_iter never meets an empty list
C16_FirstRecordUntouched ==
  /\ \A r \in 1..nread :
       Preds(r) = {} =>
         /\ ~IsTossed(r)
         /\ rec[r].join = memberfile[r].JoinDate
         /\ (pc = "done" /\ nread = Len(memberfile)) => names[InputKey(r)][1] = r
  /\ \A key \in DOMAIN names : names[key] # <<>>
  /\ gen.view # "IndexError"

\* name_iter is done with two groups, in one of which every record but the first was tossed
C16_Witness ==
  /\ pc = "done"
  /\ gen.view = "name"
  /\ gen.done
  /\ Len(yielded) = 2
  /\ \E key \in DOMAIN names :
       /\ Len(names[key]) = 1
       /\ \E r \in RowRefs : IsTossed(r) /\ InputKey(r) = key

InputWellFormed ==
  \A r \in RowRefs :
    DateOrd(memberfile[r].JoinDate) <= DateOrd(memberfile[r].ExpirationDate)

\* C17: construction changes no expiration; a survivor whose join date was repaired
\* has join <= expiration; with every input row join <= expiration, every record the
\* full view yields right after construction has JoinDate <= ExpirationDate
C17_JoinNotAfterExpiration ==
  /\ \A r \in 1..nread :
       /\ rec[r].expiration = memberfile[r].ExpirationDate
       /\ fullrec[r].ExpirationDate = memberfile[r].ExpirationDate
  /\ pc = "done" =>
       \A key \in DOMAIN names : \A r \in Survivors(key) :
         rec[r].join # memberfile[r].JoinDate =>
           DateOrd(rec[r].join) <= DateOrd(rec[r].expiration)
  /\ (pc = "done" /\ FreshView /\ InputWellFormed) =>
       \A k \in 1..Len(yielded) :
         DateOrd(yielded[k].rec.JoinDate) <= DateOrd(yielded[k].rec.ExpirationDate)

\* the full view of well-formed rows has yielded a record repaired to its own expiration
C17_Witness ==
  /\ pc = "done"
  /\ FreshView
  /\ InputWellFormed
  /\ gen.done
  /\ \E k \in 1..Len(yielded) :
       /\ yielded[k].rec.JoinDate # memberfile[yielded[k].ref].JoinDate
       /\ yielded[k].rec.JoinDate = yielded[k].rec.ExpirationDate
====
